---- MODULE Spec2Model ----
(***************************************************************************)
(* State-machine model of the X11 output of linux-wallpaperengine:         *)
(*   src/WallpaperEngine/Render/Drivers/Output/X11Output.cpp               *)
(*   src/WallpaperEngine/Render/Drivers/GLFWOpenGLDriver.cpp               *)
(*                                                                         *)
(* The object's members keep their names (m_display, m_pixmap, ...).  The  *)
(* X server and the heap are modelled by the set `live` of resources that  *)
(* currently exist; a member holds a handle (the number of the             *)
(* loadScreenInfo run that created the resource, 0 for None/nullptr), and  *)
(* a handle whose resource is not in `live` is stale.                      *)
(*                                                                         *)
(* Four specifications:                                                    *)
(*   Spec        the operations of the output taken whole (constructor,    *)
(*               reset, destructor, frame, the error handlers);            *)
(*   SpecCalls   the same operations call by call on the render thread,    *)
(*               with the I/O error handler called from inside Xlib calls; *)
(*   SpecEnsure  GLFWOpenGLDriver::ensureFramebufferSize statement by      *)
(*               statement against an arbitrary window manager;            *)
(*   SpecRender  X11Output::updateRender server call by server call, with  *)
(*               the reset of the I/O error handler inside its calls.      *)
(***************************************************************************)
EXTENDS Integers, Sequences, FiniteSets, TLC

\* ---------------------------------------------------------------- bounds
\* runs of loadScreenInfo in one behaviour (the constructor's and the resets')
MaxLoads == 3
\* calls of dispatchEventQueue in one behaviour
MaxFrames == 2

\* ------------------------------------------------------------ environment
None == 0

Min(a, b) == IF a < b THEN a ELSE b
Max(a, b) == IF a > b THEN a ELSE b

\* DisplayWidth / DisplayHeight of the default screen
Root == [width |-> 3, height |-> 2]

\* one entry of screenResources->outputs as XRRGetOutputInfo / XRRGetCrtcInfo
\* report it: connected is info->connection == RR_Connected, active is
\* crtc != nullptr, the rectangle is the crtc's
OutA    == [name |-> "A", connected |-> TRUE,  active |-> TRUE,
            x |-> 0, y |-> 1, width |-> 2, height |-> 1]
OutB    == [name |-> "B", connected |-> TRUE,  active |-> TRUE,
            x |-> 2, y |-> 0, width |-> 1, height |-> 2]
\* A unplugged (not RR_Connected), and an output C that is connected but drives
\* no crtc
OutAoff == [OutA EXCEPT !.connected = FALSE]
OutCoff == [name |-> "C", connected |-> TRUE, active |-> FALSE,
            x |-> 0, y |-> 0, width |-> 0, height |-> 0]

\* the output names a configuration may request
Names == {"A", "B"}

\* the output lists a server may report to one run, in enumeration order
ServerOutputs == { <<OutA, OutB>>, <<OutB, OutA>>, <<OutAoff, OutB, OutCoff>> }

\* XFixesQueryVersion's major version; 0 stands for XFixesQueryExtension failing
XFixesMajors == {0, 1, 2}

\* what the server answers to one run of loadScreenInfo.  randr: XRRQueryExtension
\* succeeds; resources: XRRGetScreenResources returns non-null; outputs: the
\* outputs it lists; major: the XFixes version.  An answer the run never asks
\* for is left at its default
ServerReplies ==
    { [randr |-> FALSE, resources |-> FALSE, outputs |-> << >>, major |-> 0],
      [randr |-> TRUE, resources |-> FALSE, outputs |-> << >>, major |-> 0] }
    \cup [randr : {TRUE}, resources : {TRUE}, outputs : ServerOutputs, major : XFixesMajors]

\* framebuffer sizes glfwGetFramebufferSize may report to a frame
FbSizes == { <<0, 2>>, <<1, 1>>, <<3, 2>> }

\* contents of one byte of the pixel buffer: Uninit is what new char[] leaves,
\* 0 is what memset writes, n > 0 is a byte read back by frame number n
Uninit == -1

EmptyMap == [n \in {} |-> None]

\* a resource of the server or of the heap: kind, creating run, output name
Res(kind, run, key) == <<kind, run, key>>


\* ------------------------------------------------------------------ state
VARIABLES
    phase,            \* "new", "ready", "aborted", "fatal", "crashed", "exited",
                      \* "destroyed"
    requested,        \* m_context.settings.general.screenBackgrounds (its keys)
    m_display, m_pixmap, m_gc, m_image, m_imageData, m_imageSize,
    m_rootWidth, m_rootHeight, m_fullWidth, m_fullHeight,
    m_rootOffsetX, m_rootOffsetY, m_usePerOutputWindows,
    m_screens,        \* std::vector of detected-output records
    m_viewports,      \* std::map name -> active viewport record
    m_windows,        \* std::map name -> Window
    m_windowGCs,      \* std::map name -> GC
    m_frameCounter,
    live,             \* resources of the server and the heap that exist now
    doubleFreed,      \* resources released while not live
    freeLog,          \* the release calls of the latest free, in call order
    loads,            \* runs of loadScreenInfo so far
    lastLoad,         \* inputs and outcome of the latest run of loadScreenInfo
    lastOp,           \* the operation that produced the current state
    pixmapSize,       \* width and height of the pixmap m_pixmap names
    imageDim,         \* width and height of the XImage m_image names
    buffer,           \* contents of the array m_imageData points to, per byte
    rootProps,        \* root window: background pixmap and the two properties
    lastFrame,        \* sizes used by the latest frame's readback
    wildWrite,        \* a readback wrote through a null or dangling pointer
    rootCalls,        \* requests on the root window by the latest operation
    pixmapPainted,    \* pixels of the pixmap m_pixmap names that XPutImage wrote
    haveExitHandler,  \* the build defines HAVE_XSETIOERROREXITHANDLER
    exitHandlerOn,    \* the connection CustomXIOErrorExitHandler is registered on
    stack,            \* call-level view: the activations of the render thread
    ens               \* ensureFramebufferSize: its locals, the window, its log

vars == << phase, requested, m_display, m_pixmap, m_gc, m_image, m_imageData,
           m_imageSize, m_rootWidth, m_rootHeight, m_fullWidth, m_fullHeight,
           m_rootOffsetX, m_rootOffsetY, m_usePerOutputWindows, m_screens,
           m_viewports, m_windows, m_windowGCs, m_frameCounter, live,
           doubleFreed, freeLog, loads, lastLoad, lastOp, pixmapSize, imageDim,
           buffer, rootProps, lastFrame, wildWrite, rootCalls, pixmapPainted,
           haveExitHandler, exitHandlerOn, stack, ens >>

\* the current state as one record, so that free, loadScreenInfo and the frame
\* can be composed as the code composes them (reset is free then loadScreenInfo)
Cur == [ phase |-> phase, requested |-> requested, m_display |-> m_display,
         m_pixmap |-> m_pixmap, m_gc |-> m_gc, m_image |-> m_image,
         m_imageData |-> m_imageData, m_imageSize |-> m_imageSize,
         m_rootWidth |-> m_rootWidth, m_rootHeight |-> m_rootHeight,
         m_fullWidth |-> m_fullWidth, m_fullHeight |-> m_fullHeight,
         m_rootOffsetX |-> m_rootOffsetX, m_rootOffsetY |-> m_rootOffsetY,
         m_usePerOutputWindows |-> m_usePerOutputWindows,
         m_screens |-> m_screens, m_viewports |-> m_viewports,
         m_windows |-> m_windows, m_windowGCs |-> m_windowGCs,
         m_frameCounter |-> m_frameCounter, live |-> live,
         doubleFreed |-> doubleFreed, freeLog |-> freeLog, loads |-> loads,
         lastLoad |-> lastLoad, lastOp |-> lastOp, pixmapSize |-> pixmapSize,
         imageDim |-> imageDim, buffer |-> buffer, rootProps |-> rootProps,
         lastFrame |-> lastFrame, wildWrite |-> wildWrite,
         rootCalls |-> rootCalls, pixmapPainted |-> pixmapPainted,
         haveExitHandler |-> haveExitHandler,
         exitHandlerOn |-> exitHandlerOn, stack |-> stack, ens |-> ens ]

Become(s) ==
    /\ phase' = s.phase
    /\ requested' = s.requested
    /\ m_display' = s.m_display
    /\ m_pixmap' = s.m_pixmap
    /\ m_gc' = s.m_gc
    /\ m_image' = s.m_image
    /\ m_imageData' = s.m_imageData
    /\ m_imageSize' = s.m_imageSize
    /\ m_rootWidth' = s.m_rootWidth
    /\ m_rootHeight' = s.m_rootHeight
    /\ m_fullWidth' = s.m_fullWidth
    /\ m_fullHeight' = s.m_fullHeight
    /\ m_rootOffsetX' = s.m_rootOffsetX
    /\ m_rootOffsetY' = s.m_rootOffsetY
    /\ m_usePerOutputWindows' = s.m_usePerOutputWindows
    /\ m_screens' = s.m_screens
    /\ m_viewports' = s.m_viewports
    /\ m_windows' = s.m_windows
    /\ m_windowGCs' = s.m_windowGCs
    /\ m_frameCounter' = s.m_frameCounter
    /\ live' = s.live
    /\ doubleFreed' = s.doubleFreed
    /\ freeLog' = s.freeLog
    /\ loads' = s.loads
    /\ lastLoad' = s.lastLoad
    /\ lastOp' = s.lastOp
    /\ pixmapSize' = s.pixmapSize
    /\ imageDim' = s.imageDim
    /\ buffer' = s.buffer
    /\ rootProps' = s.rootProps
    /\ lastFrame' = s.lastFrame
    /\ wildWrite' = s.wildWrite
    /\ rootCalls' = s.rootCalls
    /\ pixmapPainted' = s.pixmapPainted
    /\ haveExitHandler' = s.haveExitHandler
    /\ exitHandlerOn' = s.exitHandlerOn
    /\ stack' = s.stack
    /\ ens' = s.ens

NoLoad == [ outputs |-> <<>>, outcome |-> "none",
            reportedDetected |-> <<>>, reportedRequested |-> {} ]
NoFrame == [ fullWidth |-> 0, fullHeight |-> 0,
             readWidth |-> 0, readHeight |-> 0, read |-> FALSE ]
NoSize == [ width |-> 0, height |-> 0 ]
NoEnsure == [ pc |-> "idle" ]

\* X11Output::X11Output, the member initialisers and the two handler
\* registrations, up to the call of loadScreenInfo.  The members the
\* initialiser list does not name (sizes, offsets, m_usePerOutputWindows, the
\* containers) start at zero / empty; no formula below reads them before a run
\* of loadScreenInfo has set them
InitOutput ==
    /\ phase = "new"
    /\ requested \in SUBSET Names
    /\ m_display = None /\ m_pixmap = None /\ m_gc = None
    /\ m_image = None /\ m_imageData = None /\ m_imageSize = 0
    /\ m_rootWidth = 0 /\ m_rootHeight = 0
    /\ m_fullWidth = 0 /\ m_fullHeight = 0
    /\ m_rootOffsetX = 0 /\ m_rootOffsetY = 0
    /\ m_usePerOutputWindows = FALSE
    /\ m_screens = <<>>
    /\ m_viewports = EmptyMap /\ m_windows = EmptyMap /\ m_windowGCs = EmptyMap
    /\ m_frameCounter = 0
    /\ live = {} /\ doubleFreed = {} /\ freeLog = <<>>
    /\ loads = 0 /\ lastLoad = NoLoad /\ lastOp = "init"
    /\ pixmapSize = NoSize /\ imageDim = NoSize
    /\ buffer = EmptyMap
    /\ rootProps = [background |-> None, xrootpmap |-> None, esetroot |-> None]
    /\ lastFrame = NoFrame
    /\ wildWrite = FALSE
    /\ rootCalls = <<>>
    /\ pixmapPainted = {}
    /\ haveExitHandler \in BOOLEAN
    /\ exitHandlerOn = None

\* the operations of the output taken whole: no call is in progress between
\* them and ensureFramebufferSize is not looked into
Init ==
    /\ InitOutput
    /\ stack = <<>>
    /\ ens = NoEnsure

\* --------------------------------------------------------- loadScreenInfo
\* std::map insertion m [k] = v
Put(m, k, v) == [n \in (DOMAIN m) \cup {k} |-> IF n = k THEN v ELSE m[n]]

\* iteration order of a std::map keyed by output name
NameOrder == <<"A", "B", "C">>
Keys(m) == SelectSeq(NameOrder, LAMBDA n : n \in DOMAIN m)

\* the running bounds before the first requested output is seen
NoBounds == [have |-> FALSE, minX |-> 0, minY |-> 0, maxX |-> 0, maxY |-> 0]

\* AccumulateBounds with a fault: the first requested output is folded into
\* the zero-initialised bounds like every later one (haveRequestedBounds ignored)
AccumulateBoundsFromZero(b, crtc) ==
    [ have |-> TRUE,
      minX |-> Min(b.minX, crtc.x),
      minY |-> Min(b.minY, crtc.y),
      maxX |-> Max(b.maxX, crtc.x + crtc.width),
      maxY |-> Max(b.maxY, crtc.y + crtc.height) ]

\* AccumulateBounds with a fault: every requested output replaces the running
\* bounds (std::min / std::max left out), so the enumeration order decides
AccumulateBoundsLastWins(b, crtc) ==
    [ have |-> TRUE, minX |-> crtc.x, minY |-> crtc.y,
      maxX |-> crtc.x + crtc.width, maxY |-> crtc.y + crtc.height ]

\* one requested output folded into the running bounds
AccumulateBounds(b, crtc) ==
    LET screenMinX == crtc.x
        screenMinY == crtc.y
        screenMaxX == crtc.x + crtc.width
        screenMaxY == crtc.y + crtc.height
    IN  IF ~b.have
        THEN [ have |-> TRUE, minX |-> screenMinX, minY |-> screenMinY,
               maxX |-> screenMaxX, maxY |-> screenMaxY ]
        ELSE [ have |-> TRUE,
               minX |-> Min(b.minX, screenMinX),
               minY |-> Min(b.minY, screenMinY),
               maxX |-> Max(b.maxX, screenMaxX),
               maxY |-> Max(b.maxY, screenMaxY) ]

\* new GLFWOutputViewport {{crtc->x, crtc->y, crtc->width, crtc->height}, name}
\* (a glm::ivec4: z is the width, w the height); ptr is the run that made it
NewViewport(run, o) ==
    [ptr |-> run, name |-> o.name, x |-> o.x, y |-> o.y, z |-> o.width, w |-> o.height]

\* the loop over screenResources->outputs, from output i on; acc carries
\* m_screens, m_viewports, the running bounds and the resources obtained
RECURSIVE ScanOutputs(_, _, _, _, _)
ScanOutputs(outs, i, req, run, acc) ==
    IF i > Len(outs) THEN acc
    ELSE
      LET o == outs[i]
          \* XRRGetOutputInfo: never passed to XRRFreeOutputInfo
          got == [acc EXCEPT !.made = @ \cup {Res("info", run, o.name)}]
      IN  IF ~o.connected \/ ~o.active
          THEN ScanOutputs(outs, i + 1, req, run, got)
          ELSE
            LET listed == [got EXCEPT
                    !.screens = Append(@, NewViewport(run, o)),
                    !.made = @ \cup {Res("screen", run, o.name)}]
                kept == IF o.name \in req
                        THEN [listed EXCEPT
                                !.viewports = Put(@, o.name, NewViewport(run, o)),
                                !.made = @ \cup {Res("viewport", run, o.name)},
                                !.bounds = AccumulateBounds(@, o)]
                        ELSE listed
            IN  ScanOutputs(outs, i + 1, req, run, kept)

\* the check over m_screens that decides the fatal configuration error
AnyRequested(screens, req) ==
    \E i \in 1..Len(screens) : screens[i].name \in req

\* Rebase with a fault: the viewport keeps its global coordinates
RebaseNot(v, offsetX, offsetY) == v

\* viewport->viewport.x -= m_rootOffsetX; viewport->viewport.y -= m_rootOffsetY
Rebase(v, offsetX, offsetY) ==
    [v EXCEPT !.x = @ - offsetX, !.y = @ - offsetY]

\* PixmapArgs with a fault: the pixmap takes the size of the bounding box
PixmapArgsOfBox(s) == [width |-> s.m_fullWidth, height |-> s.m_fullHeight]

\* the width and height given to XCreatePixmap
PixmapArgs(s) == [width |-> s.m_rootWidth, height |-> s.m_rootHeight]

\* m_fullWidth * m_fullHeight * 4 (far below 2^31 for the sizes modelled)
ImageBytes(s) == s.m_fullWidth * s.m_fullHeight * 4

\* XFixesQueryExtension && XFixesQueryVersion, then major >= 2
XFixesAvailable(major) == major >= 2

\* the two XChangeProperty calls that write &m_pixmap into _XROOTPMAP_ID and
\* ESETROOT_PMAP_ID of the root window.  PublishPixmapHalf is PublishPixmap
\* with a fault: the second property is not written
PublishPixmapHalf(s, pixmap) ==
    [s EXCEPT !.rootProps.xrootpmap = pixmap,
              !.rootCalls = @ \o <<"XChangeProperty _XROOTPMAP_ID">>]

PublishPixmap(s, pixmap) ==
    [s EXCEPT !.rootProps.xrootpmap = pixmap,
              !.rootProps.esetroot = pixmap,
              !.rootCalls = @ \o <<"XChangeProperty _XROOTPMAP_ID",
                                   "XChangeProperty ESETROOT_PMAP_ID">>]

\* XSetWindowBackgroundPixmap (m_display, m_root, m_pixmap)
SetBackground(s, pixmap) ==
    [s EXCEPT !.rootProps.background = pixmap,
              !.rootCalls = @ \o <<"XSetWindowBackgroundPixmap">>]

\* the part of loadScreenInfo after the fatal check: bounding box, XFixes
\* probe, pixmap and GC, root background and properties, per-output windows,
\* pixel buffer and image
AllocateSurface(s, run, bounds, major) ==
    LET boxed ==
          IF bounds.have
          THEN [s EXCEPT
                  !.m_rootOffsetX = bounds.minX,
                  !.m_rootOffsetY = bounds.minY,
                  !.m_fullWidth = bounds.maxX - bounds.minX,
                  !.m_fullHeight = bounds.maxY - bounds.minY,
                  !.m_viewports = [n \in DOMAIN s.m_viewports |->
                                      Rebase(s.m_viewports[n], bounds.minX, bounds.minY)]]
          ELSE [s EXCEPT
                  !.m_fullWidth = s.m_rootWidth,
                  !.m_fullHeight = s.m_rootHeight,
                  !.m_rootOffsetX = 0,
                  !.m_rootOffsetY = 0]
        perOutput == XFixesAvailable(major)
        names == IF perOutput THEN DOMAIN boxed.m_viewports ELSE {}
        windows == { Res("window", run, n) : n \in names }
        windowGCs == { Res("windowgc", run, n) : n \in names }
        exposed == PublishPixmap(SetBackground(boxed, run), run)
    IN  [exposed EXCEPT
            !.m_usePerOutputWindows = perOutput,
            !.m_pixmap = run,
            !.pixmapSize = PixmapArgs(boxed),
            !.pixmapPainted = {},
            !.m_gc = run,
            !.m_windows = [n \in (DOMAIN s.m_windows) \cup names |->
                              IF n \in names THEN run ELSE s.m_windows[n]],
            !.m_windowGCs = [n \in (DOMAIN s.m_windowGCs) \cup names |->
                                IF n \in names THEN run ELSE s.m_windowGCs[n]],
            !.m_imageSize = ImageBytes(boxed),
            !.m_imageData = run,
            !.buffer = [b \in 0..(ImageBytes(boxed) - 1) |-> Uninit],
            !.m_image = run,
            !.imageDim = [width |-> boxed.m_fullWidth, height |-> boxed.m_fullHeight],
            !.live = @ \cup windows \cup windowGCs
                       \cup { Res("pixmap", run, ""), Res("gc", run, ""),
                              Res("buffer", run, ""), Res("image", run, "") },
            !.lastLoad.outcome = "ok"]

\* XSetIOErrorExitHandler (m_display, CustomXIOErrorExitHandler, this), compiled
\* in only where Xlib has it
RegisterExitHandler(s, display) ==
    IF s.haveExitHandler
    THEN [s EXCEPT !.exitHandlerOn = display]
    ELSE s

\* X11Output::loadScreenInfo, run against the server's reply
loadScreenInfo(s, reply) ==
    LET run == s.loads + 1
        opened == [RegisterExitHandler(s, run) EXCEPT
            !.loads = run,
            !.lastOp = "loadScreenInfo",
            !.m_display = run,
            !.live = @ \cup {Res("connection", run, "")},
            !.rootCalls = <<>>,
            !.lastLoad = [NoLoad EXCEPT !.outputs = reply.outputs]]
    IN  IF ~reply.randr
        THEN [opened EXCEPT !.lastLoad.outcome = "no-randr"]
        ELSE
          LET rooted == [opened EXCEPT !.m_rootWidth = Root.width,
                                       !.m_rootHeight = Root.height]
          IN  IF ~reply.resources
              THEN [rooted EXCEPT !.lastLoad.outcome = "no-resources"]
              ELSE
                LET scan == ScanOutputs(reply.outputs, 1, s.requested, run,
                                [screens |-> s.m_screens, viewports |-> s.m_viewports,
                                 bounds |-> NoBounds, made |-> {}])
                    scanned == [rooted EXCEPT
                                  !.m_screens = scan.screens,
                                  !.m_viewports = scan.viewports,
                                  !.live = @ \cup scan.made]
                IN  IF ~AnyRequested(scanned.m_screens, s.requested)
                    THEN [scanned EXCEPT
                            !.phase = "fatal",
                            !.lastLoad.outcome = "fatal",
                            !.lastLoad.reportedDetected =
                                [i \in 1..Len(scanned.m_screens) |-> scanned.m_screens[i].name],
                            !.lastLoad.reportedRequested = s.requested]
                    ELSE AllocateSurface(scanned, run, scan.bounds, reply.major)

\* -------------------------------------------------------------------- free
Call(fn, resources) == [fn |-> fn, res |-> resources]

\* the delete of every viewport record, in map order
DeleteViewports(s) ==
    LET ks == Keys(s.m_viewports)
    IN  [i \in 1..Len(ks) |->
            Call("delete viewport", {Res("viewport", s.m_viewports[ks[i]].ptr, ks[i])})]

\* XFreeGC of every per-output GC that is not None, in map order
FreeWindowGCs(s) ==
    LET ks == SelectSeq(Keys(s.m_windowGCs), LAMBDA n : s.m_windowGCs[n] # None)
    IN  [i \in 1..Len(ks) |->
            Call("XFreeGC window", {Res("windowgc", s.m_windowGCs[ks[i]], ks[i])})]

\* XDestroyWindow of every per-output window that is not None, in map order
DestroyWindows(s) ==
    LET ks == SelectSeq(Keys(s.m_windows), LAMBDA n : s.m_windows[n] # None)
    IN  [i \in 1..Len(ks) |->
            Call("XDestroyWindow", {Res("window", s.m_windows[ks[i]], ks[i])})]

\* XDestroyImage releases the XImage and, as Xlib documents for an image made
\* by XCreateImage, the data array the image was created over
DestroyImage(s) ==
    IF s.m_image # None
    THEN << Call("XDestroyImage", {Res("image", s.m_image, ""), Res("buffer", s.m_image, "")}) >>
    ELSE << >>

FreeGC(s) ==
    IF s.m_display # None /\ s.m_gc # None
    THEN << Call("XFreeGC", {Res("gc", s.m_gc, "")}) >> ELSE << >>

FreePixmap(s) ==
    IF s.m_display # None /\ s.m_pixmap # None
    THEN << Call("XFreePixmap", {Res("pixmap", s.m_pixmap, "")}) >> ELSE << >>

\* delete [] m_imageData (no call is made for a null pointer)
DeleteImageData(s) ==
    IF s.m_imageData # None
    THEN << Call("delete[]", {Res("buffer", s.m_imageData, "")}) >> ELSE << >>

CloseDisplay(s) ==
    IF s.m_display # None
    THEN << Call("XCloseDisplay", {Res("connection", s.m_display, "")}) >> ELSE << >>

\* FreeCalls with a fault: the connection is closed before the shared surface
\* is released
FreeCallsCloseEarly(s) ==
    DeleteViewports(s)
    \o (IF s.m_display # None THEN FreeWindowGCs(s) \o DestroyWindows(s) ELSE << >>)
    \o CloseDisplay(s) \o DestroyImage(s) \o FreeGC(s) \o FreePixmap(s)
    \o DeleteImageData(s)

\* FreeCalls with a fault: the pixmap is not released
FreeCallsKeepPixmap(s) ==
    DeleteViewports(s)
    \o (IF s.m_display # None THEN FreeWindowGCs(s) \o DestroyWindows(s) ELSE << >>)
    \o DestroyImage(s) \o FreeGC(s) \o DeleteImageData(s) \o CloseDisplay(s)

\* FreeCalls with a fault: the per-output windows are not destroyed
FreeCallsKeepWindows(s) ==
    DeleteViewports(s)
    \o (IF s.m_display # None THEN FreeWindowGCs(s) ELSE << >>)
    \o DestroyImage(s) \o FreeGC(s) \o FreePixmap(s)
    \o DeleteImageData(s) \o CloseDisplay(s)

\* the release calls X11Output::free makes, in the order it makes them
FreeCalls(s) ==
    DeleteViewports(s)
    \o (IF s.m_display # None THEN FreeWindowGCs(s) \o DestroyWindows(s) ELSE << >>)
    \o DestroyImage(s) \o FreeGC(s) \o FreePixmap(s)
    \o DeleteImageData(s) \o CloseDisplay(s)

\* the effect of release calls i.. on the live resources: a resource that is
\* live is released, one that is not was released before
RECURSIVE Release(_, _, _)
Release(calls, i, acc) ==
    IF i > Len(calls) THEN acc
    ELSE Release(calls, i + 1,
            [ live |-> acc.live \ calls[i].res,
              doubleFreed |-> acc.doubleFreed \cup (calls[i].res \ acc.live) ])

\* X11Output::free: the calls, and the three containers cleared; no member
\* that holds a handle is reset
free(s) ==
    LET calls == FreeCalls(s)
        after == Release(calls, 1, [live |-> s.live, doubleFreed |-> s.doubleFreed])
    IN  [s EXCEPT
            !.m_viewports = EmptyMap,
            !.m_windowGCs = EmptyMap,
            !.m_windows = EmptyMap,
            !.live = after.live,
            !.doubleFreed = after.doubleFreed,
            !.buffer = IF Res("buffer", s.m_imageData, "") \in after.live THEN @ ELSE EmptyMap,
            !.rootCalls = <<>>,
            !.pixmapPainted = IF Res("pixmap", s.m_pixmap, "") \in after.live THEN @ ELSE {},
            !.freeLog = calls]

\* X11Output::reset
reset(s, reply) == loadScreenInfo(free(s), reply)

\* CustomXIOErrorExitHandler: Xlib calls it, after the I/O error handler, on
\* the connection it was registered on; it runs reset and returns
CustomXIOErrorExitHandler(s, reply) == [reset(s, reply) EXCEPT !.lastOp = "reset"]

\* CustomXIOErrorHandler on a connection without an exit handler: it logs and
\* returns 0, and Xlib ends the process when the I/O error handler returns
CustomXIOErrorHandler(s) ==
    [s EXCEPT !.phase = "exited", !.lastOp = "CustomXIOErrorHandler"]

\* CustomXErrorHandler with a fault: the protocol error is answered by a
\* teardown
CustomXErrorHandlerFrees(s) == [free(s) EXCEPT !.lastOp = "CustomXErrorHandler"]

\* CustomXErrorHandler: logs "Detected X error" and returns 0
CustomXErrorHandler(s) == [s EXCEPT !.lastOp = "CustomXErrorHandler"]

\* ------------------------------------------------------------- the frame
\* byte offsets glReadPixels writes for a region of readWidth x readHeight
\* pixels of 4 bytes with GL_PACK_ROW_LENGTH = rowLength
ReadOffsets(readWidth, readHeight, rowLength) ==
    { (y * rowLength + x) * 4 + k :
        x \in 0..(readWidth - 1), y \in 0..(readHeight - 1), k \in 0..3 }

\* the readback block of dispatchEventQueue for a framebuffer of size fb
Readback(s, fb) ==
    LET fullWidth == s.m_fullWidth
        fullHeight == s.m_fullHeight
        readWidth == Min(fb[1], fullWidth)
        readHeight == Min(fb[2], fullHeight)
        mismatch == (readWidth # fullWidth \/ readHeight # fullHeight)
        reads == readWidth > 0 /\ readHeight > 0
        bufferLive == Res("buffer", s.m_imageData, "") \in s.live
        \* memset (getImageBuffer (), 0, getImageBufferSize ())
        cleared == IF mismatch
                   THEN [b \in DOMAIN s.buffer |-> IF b < s.m_imageSize THEN 0 ELSE s.buffer[b]]
                   ELSE s.buffer
        offsets == ReadOffsets(readWidth, readHeight, fullWidth)
        filled == [b \in DOMAIN s.buffer |->
                      IF b \in offsets THEN s.m_frameCounter + 1 ELSE cleared[b]]
    IN  [s EXCEPT
            !.buffer = IF reads /\ bufferLive THEN filled ELSE @,
            !.wildWrite = @ \/ (reads /\ (~bufferLive \/ ~(offsets \subseteq DOMAIN s.buffer))),
            !.lastFrame = [ fullWidth |-> fullWidth, fullHeight |-> fullHeight,
                            readWidth |-> readWidth, readHeight |-> readHeight,
                            read |-> reads /\ bufferLive ]]

\* PutImageAreaAtOrigin is PutImageArea with a fault: the destination is the
\* pixmap's origin, not the box's offset
PutImageAreaAtOrigin(s) ==
    { p \in (0..(s.pixmapSize.width - 1)) \X (0..(s.pixmapSize.height - 1)) :
        /\ p[1] < s.m_fullWidth
        /\ p[2] < s.m_fullHeight }

\* the pixels XPutImage (m_pixmap, m_gc, m_image, 0, 0, m_rootOffsetX,
\* m_rootOffsetY, m_fullWidth, m_fullHeight) writes: the destination rectangle,
\* clipped by the server to the pixmap
PutImageArea(s) ==
    { p \in (0..(s.pixmapSize.width - 1)) \X (0..(s.pixmapSize.height - 1)) :
        /\ s.m_rootOffsetX <= p[1] /\ p[1] < s.m_rootOffsetX + s.m_fullWidth
        /\ s.m_rootOffsetY <= p[2] /\ p[2] < s.m_rootOffsetY + s.m_fullHeight }

\* XPutImage into m_pixmap; on a handle that names no pixmap the server
\* answers with a BadDrawable error and writes nothing
PaintPixmap(s) ==
    IF Res("pixmap", s.m_pixmap, "") \in s.live
    THEN [s EXCEPT !.pixmapPainted = @ \cup PutImageArea(s)]
    ELSE s

\* updateRender with a fault: the frame sets the root background again
updateRenderSetsBackground(s) ==
    LET set == SetBackground(PaintPixmap(s), s.m_pixmap)
    IN  IF s.m_usePerOutputWindows
        THEN IF s.m_pixmap # None /\ s.m_gc # None
             THEN PublishPixmap(set, s.m_pixmap)
             ELSE set
        ELSE [PublishPixmap(set, s.m_pixmap) EXCEPT
                 !.rootCalls = @ \o <<"XClearArea">>]

\* X11Output::updateRender: the XPutImage calls leave the members alone; both
\* paths write m_pixmap into the two root-pixmap properties, and the shared
\* path marks the box dirty with XClearArea
updateRender(s) ==
    IF s.m_usePerOutputWindows
    THEN IF s.m_pixmap # None /\ s.m_gc # None
         THEN PublishPixmap(PaintPixmap(s), s.m_pixmap)
         ELSE s
    ELSE [PublishPixmap(PaintPixmap(s), s.m_pixmap) EXCEPT
             !.rootCalls = @ \o <<"XClearArea">>]

\* GLFWOpenGLDriver::dispatchEventQueue.  glError: glGetError reports an error
\* after the readback (sLog.exception); crash: XPutImage faults on an m_image
\* that is null or was destroyed
dispatchEventQueue(s, fb, glError, crash) ==
    LET read == [Readback(s, fb) EXCEPT !.lastOp = "dispatchEventQueue",
                                        !.rootCalls = <<>>]
    IN  IF glError THEN [read EXCEPT !.phase = "fatal"]
        ELSE IF crash THEN [read EXCEPT !.phase = "crashed"]
        ELSE [updateRender(read) EXCEPT !.m_frameCounter = @ + 1]

ImageLive(s) == Res("image", s.m_image, "") \in s.live

\* ---------------------------------------------------------------- actions
\* the constructor's call of loadScreenInfo; an exception leaves no object
Construct ==
    /\ phase = "new"
    /\ \E reply \in ServerReplies :
          LET r == loadScreenInfo(Cur, reply)
          IN  Become([r EXCEPT !.phase = IF r.phase = "fatal" THEN "aborted" ELSE "ready",
                               !.lastOp = "construct"])

\* a fatal I/O error on the connection m_display, which has the exit handler:
\* CustomXIOErrorExitHandler runs reset against the server's next answers
Reset ==
    /\ phase = "ready"
    /\ exitHandlerOn = m_display /\ m_display # None
    /\ loads < MaxLoads
    /\ \E reply \in ServerReplies :
          Become(CustomXIOErrorExitHandler(Cur, reply))

\* a fatal I/O error on the connection m_display, which has no exit handler
IOErrorExit ==
    /\ phase = "ready"
    /\ exitHandlerOn # m_display
    /\ Become(CustomXIOErrorHandler(Cur))

\* the server reports a protocol error (BadDrawable, BadGC, ...): Xlib calls
\* the handler XSetErrorHandler registered
XError ==
    /\ phase = "ready"
    /\ Become(CustomXErrorHandler(Cur))

\* X11Output::~X11Output
Destructor ==
    /\ phase \in {"ready", "fatal"}
    /\ Become([free(Cur) EXCEPT !.phase = "destroyed", !.lastOp = "destructor"])

\* one call of dispatchEventQueue from the render loop
Frame ==
    /\ phase = "ready"
    /\ m_frameCounter < MaxFrames
    /\ \E fb \in FbSizes, glError \in BOOLEAN,
          crash \in (IF ImageLive(Cur) THEN {FALSE} ELSE BOOLEAN) :
          Become(dispatchEventQueue(Cur, fb, glError, crash))

Next == Construct \/ Reset \/ IOErrorExit \/ XError \/ Destructor \/ Frame

Spec == Init /\ [][Next]_vars

\* ------------------------------------------------ the calls of the thread
\* The same operations seen call by call.  Everything runs on one thread: a
\* fatal I/O error is noticed inside an Xlib call on m_display, and Xlib calls
\* the handlers from inside that call, on top of whatever called it.  stack
\* holds the activations, the innermost last; an activation is at the step it
\* executes next.  This view follows control only: of the members it keeps
\* m_display, the handler registration and the two counters.

\* resets in progress at once
MaxNest == 2

\* FrameStepsCountFirst is FrameSteps with a fault: the frame is counted before
\* it is presented
FrameStepsCountFirst ==
    << "glClear", "update", "glReadPixels", "glGetError", "m_frameCounter++",
       "XPutImage", "XChangeProperty", "XFlush", "glfwSwapBuffers",
       "glfwPollEvents", "usleep", "return" >>

\* GLFWOpenGLDriver::dispatchEventQueue in call order, the calls of
\* X11Output::updateRender in their place.  "update" is the loop over the
\* viewports, one getApp ().update per round; "return" is the end of the body
FrameSteps ==
    << "glClear", "update", "glReadPixels", "glGetError", "XPutImage",
       "XChangeProperty", "XFlush", "glfwSwapBuffers", "glfwPollEvents",
       "m_frameCounter++", "usleep", "return" >>

\* how many viewports getViewports () may hold when a frame starts
ViewportCounts == 0..Cardinality(Names)

\* X11Output::loadScreenInfo in call order: the connection and the handler
\* registration, the RandR enumeration, the surface on the server, the image,
\* the window resize
LoadSteps ==
    << "XOpenDisplay", "XRRGetScreenResources", "XCreatePixmap", "XCreateImage",
       "ensureFramebufferSize" >>

\* X11Output::reset
ResetSteps == << "free" >> \o LoadSteps

StepsOf(fn) ==
    CASE fn = "dispatchEventQueue" -> FrameSteps
      [] fn = "reset" -> ResetSteps
      [] fn = "X11Output" -> LoadSteps

\* the steps that send requests on m_display or wait for its replies.  The
\* calls of free are not among them: they act on the connection whose failure
\* started the reset, which Xlib has marked as failed
XCalls == { "XRRGetScreenResources", "XCreatePixmap", "XPutImage",
            "XChangeProperty", "XFlush" }

\* the steps of a frame the claims name: readback, updateRender, buffer swap
FrameWork == { "glReadPixels", "XPutImage", "XChangeProperty", "XFlush",
               "glfwSwapBuffers" }

\* an activation: the function, the step it executes next, the steps it has
\* executed, and for a frame the number of viewports it iterates over
Activation(fn) == [fn |-> fn, pc |-> 1, trace |-> << >>, viewports |-> 0]

Top == stack[Len(stack)]
NextStep == StepsOf(Top.fn)[Top.pc]

\* the innermost activation has executed its step: it moves on, or returns
Advance(st) ==
    LET top == st[Len(st)]
    IN  IF top.pc = Len(StepsOf(top.fn))
        THEN SubSeq(st, 1, Len(st) - 1)
        ELSE [st EXCEPT ![Len(st)].pc = @ + 1,
                        ![Len(st)].trace = Append(@, StepsOf(top.fn)[top.pc])]

\* rounds of the viewport loop the innermost activation has executed
Updated == Cardinality({ i \in 1..Len(Top.trace) : Top.trace[i] = "update" })

\* resets that have started and not returned
Nesting == Cardinality({ i \in 1..Len(stack) : stack[i].fn = "reset" })

Running == phase \in {"new", "ready"} /\ stack # << >>

\* what the call-level view leaves alone
UnchangedByCalls ==
    UNCHANGED << requested, m_pixmap, m_gc, m_image, m_imageData, m_imageSize,
                 m_rootWidth, m_rootHeight, m_fullWidth, m_fullHeight,
                 m_rootOffsetX, m_rootOffsetY, m_usePerOutputWindows, m_screens,
                 m_viewports, m_windows, m_windowGCs, live, doubleFreed,
                 freeLog, lastLoad, pixmapSize, imageDim, buffer, rootProps,
                 lastFrame, wildWrite, rootCalls, pixmapPainted,
                 haveExitHandler, ens >>

InitCalls ==
    /\ InitOutput
    /\ stack = << Activation("X11Output") >>
    /\ ens = NoEnsure

\* the innermost activation executes its next step, which succeeds
Step ==
    /\ Running
    /\ NextStep # "update"
    /\ stack' = Advance(stack)
    /\ lastOp' = NextStep
    /\ phase' = IF stack' = << >> THEN "ready" ELSE phase
    /\ IF NextStep = "XOpenDisplay"
       THEN /\ loads' = loads + 1
            /\ m_display' = loads + 1
            /\ exitHandlerOn' = RegisterExitHandler(Cur, loads + 1).exitHandlerOn
       ELSE UNCHANGED << loads, m_display, exitHandlerOn >>
    /\ m_frameCounter' = IF NextStep = "m_frameCounter++"
                         THEN m_frameCounter + 1 ELSE m_frameCounter
    /\ UnchangedByCalls

\* loadScreenInfo returns before the allocation: no RandR, no screen resources
EarlyReturn ==
    /\ Running
    /\ NextStep = "XRRGetScreenResources"
    /\ stack' = SubSeq(stack, 1, Len(stack) - 1)
    /\ lastOp' = "return"
    /\ phase' = IF stack' = << >> THEN "ready" ELSE phase
    /\ UNCHANGED << loads, m_display, exitHandlerOn, m_frameCounter >>
    /\ UnchangedByCalls

\* loadScreenInfo finds no requested output, or glGetError reports an error
\* after the readback: sLog.exception
Throw ==
    /\ Running
    /\ NextStep \in {"XRRGetScreenResources", "glGetError"}
    /\ phase' = "fatal"
    /\ lastOp' = "sLog.exception"
    /\ UNCHANGED << stack, loads, m_display, exitHandlerOn, m_frameCounter >>
    /\ UnchangedByCalls

\* the render loop calls dispatchEventQueue
CallFrame ==
    /\ phase = "ready" /\ stack = << >>
    /\ m_frameCounter < MaxFrames
    /\ \E n \in ViewportCounts :
          stack' = << [Activation("dispatchEventQueue") EXCEPT !.viewports = n] >>
    /\ lastOp' = "call dispatchEventQueue"
    /\ UNCHANGED << phase, loads, m_display, exitHandlerOn, m_frameCounter >>
    /\ UnchangedByCalls

\* one round of the loop over the viewports: getApp ().update (viewport)
Update ==
    /\ Running
    /\ NextStep = "update" /\ Updated < Top.viewports
    /\ stack' = [stack EXCEPT
                   ![Len(stack)].trace = Append(@, "update"),
                   ![Len(stack)].pc = IF Updated + 1 = Top.viewports THEN @ + 1 ELSE @]
    /\ lastOp' = "update"
    /\ UNCHANGED << phase, loads, m_display, exitHandlerOn, m_frameCounter >>
    /\ UnchangedByCalls

\* a step whose condition is false: the loop over no viewport, the readback of
\* an empty region (readWidth or readHeight is 0), the sleep after a frame that
\* took the minimum time or longer
Skip ==
    /\ Running
    /\ \/ NextStep = "update" /\ Top.viewports = 0
       \/ NextStep \in {"glReadPixels", "usleep"}
    /\ stack' = [stack EXCEPT ![Len(stack)].pc = @ + 1]
    /\ lastOp' = "skip"
    /\ UNCHANGED << phase, loads, m_display, exitHandlerOn, m_frameCounter >>
    /\ UnchangedByCalls

\* the connection m_display fails inside an Xlib call and has the exit handler:
\* Xlib calls CustomXIOErrorExitHandler, which calls reset; when reset returns
\* the Xlib call returns to its caller
IOError ==
    /\ Running
    /\ NextStep \in XCalls
    /\ exitHandlerOn = m_display
    /\ Nesting < MaxNest
    /\ stack' = Advance(stack) \o << Activation("reset") >>
    /\ lastOp' = "CustomXIOErrorExitHandler"
    /\ UNCHANGED << phase, loads, m_display, exitHandlerOn, m_frameCounter >>
    /\ UnchangedByCalls

\* the connection fails and has no exit handler: CustomXIOErrorHandler returns
\* and Xlib ends the process
IOErrorNoHandler ==
    /\ Running
    /\ NextStep \in XCalls
    /\ exitHandlerOn # m_display
    /\ phase' = CustomXIOErrorHandler(Cur).phase
    /\ lastOp' = CustomXIOErrorHandler(Cur).lastOp
    /\ UNCHANGED << stack, loads, m_display, exitHandlerOn, m_frameCounter >>
    /\ UnchangedByCalls

NextCalls ==
    \/ Step \/ EarlyReturn \/ Throw \/ CallFrame \/ Update \/ Skip
    \/ IOError \/ IOErrorNoHandler

SpecCalls == InitCalls /\ [][NextCalls]_vars

\* --------------------------------------------------- ensureFramebufferSize
\* GLFWOpenGLDriver::ensureFramebufferSize, statement by statement, against a
\* window manager and an X server that answer as they like: what
\* glfwGetWindowSize and glfwGetFramebufferSize report at each read is any of
\* WindowSizes.  ens holds the function's position and locals: size (the
\* argument), attempt, fb and win (the sizes it read last), and what it did:
\* rounds1 and rounds2 (iterations of the two loops), polls (calls of
\* glfwPollEvents), mapped, xresize (XResizeWindow issued), returned ("early"
\* from the first loop, "end" from the end of the function) and the lines it
\* logged about the outcome.

\* attempt < 4 in both loops
PollAttempts == 4

\* the sizes loadScreenInfo may ask for, and the sizes the window can be seen
\* to have (<<6, 4>> stands for the 640x480 the window is created with)
RequestSizes == { <<3, 2>>, <<2, 1>> }
WindowSizes == { <<3, 2>>, <<2, 1>>, <<6, 4>> }

\* the loop condition with a fault: the loop goes on until the sizes converge
LoopContinuesForever(attempt) == TRUE

\* for (int attempt = 0; attempt < 4; ++attempt)
LoopContinues(attempt) == attempt < PollAttempts

\* fb.x == size.x && fb.y == size.y && winW == size.x && winH == size.y
Converged(fb, win, size) ==
    fb[1] = size[1] /\ fb[2] = size[2] /\ win[1] = size[1] /\ win[2] = size[2]

\* the final test with a fault: the window size is not compared
MismatchFramebufferOnly(fb, win, size) ==
    fb[1] # size[1] \/ fb[2] # size[2]

\* fb.x != size.x || fb.y != size.y || winW != size.x || winH != size.y
Mismatch(fb, win, size) ==
    fb[1] # size[1] \/ fb[2] # size[2] \/ win[1] # size[1] \/ win[2] # size[2]

\* the lines about the outcome, with the sizes they print.  MismatchLinesShort
\* is MismatchLines with a fault: the window line is left out
MismatchLinesShort(fb, win, size) ==
    << [text |-> "Framebuffer size mismatch", requested |-> size, got |-> fb] >>

\* the two sLog.error calls of the final test
MismatchLines(fb, win, size) ==
    << [text |-> "Framebuffer size mismatch", requested |-> size, got |-> fb],
       [text |-> "X11 window size mismatch", requested |-> size, got |-> win] >>

\* sLog.out ("X11 framebuffer size confirmed: ", fb.x, "x", fb.y)
ConfirmedLine(fb) ==
    << [text |-> "X11 framebuffer size confirmed", requested |-> << >>, got |-> fb] >>

InitEnsure ==
    /\ InitOutput
    /\ stack = << >>
    /\ ens = NoEnsure

UnchangedByEnsure ==
    UNCHANGED << phase, requested, m_display, m_pixmap, m_gc, m_image,
                 m_imageData, m_imageSize, m_rootWidth, m_rootHeight,
                 m_fullWidth, m_fullHeight, m_rootOffsetX, m_rootOffsetY,
                 m_usePerOutputWindows, m_screens, m_viewports, m_windows,
                 m_windowGCs, m_frameCounter, live, doubleFreed, freeLog, loads,
                 lastLoad, lastOp, pixmapSize, imageDim, buffer, rootProps,
                 lastFrame, wildWrite, rootCalls, pixmapPainted,
                 haveExitHandler, exitHandlerOn, stack >>

\* the call, up to resizeWindow (size).  x11: glfwGetX11Display and
\* glfwGetX11Window both gave a handle (ENABLE_X11)
EnsureCall ==
    /\ ens.pc \in {"idle", "done"}
    /\ \E size \in RequestSizes, x11 \in BOOLEAN, fb \in WindowSizes, win \in WindowSizes :
          ens' = [ pc |-> "loop1", size |-> size, x11 |-> x11, attempt |-> 0,
                   fb |-> fb, win |-> win, rounds1 |-> 0, rounds2 |-> 0,
                   polls |-> 0, mapped |-> FALSE, xresize |-> FALSE,
                   returned |-> "no", log |-> << >> ]
    /\ UnchangedByEnsure

\* one iteration of the first loop: glfwPollEvents, the two reads, the test
Round1 ==
    /\ ens.pc = "loop1" /\ LoopContinues(ens.attempt)
    /\ \E fb \in WindowSizes, win \in WindowSizes :
          ens' = [ens EXCEPT
                    !.polls = @ + 1, !.rounds1 = @ + 1,
                    !.fb = fb, !.win = win,
                    !.attempt = IF Converged(fb, win, ens.size) THEN @ ELSE @ + 1,
                    !.pc = IF Converged(fb, win, ens.size) THEN "done" ELSE @,
                    !.returned = IF Converged(fb, win, ens.size) THEN "early" ELSE @]
    /\ UnchangedByEnsure

\* the first loop ran out: glfwSetWindowPos (-10000, -10000) and showWindow
Remap ==
    /\ ens.pc = "loop1" /\ ~LoopContinues(ens.attempt)
    /\ ens' = [ens EXCEPT !.mapped = TRUE, !.attempt = 0, !.pc = "loop2"]
    /\ UnchangedByEnsure

\* one iteration of the second loop; convergence breaks out of it
Round2 ==
    /\ ens.pc = "loop2" /\ LoopContinues(ens.attempt)
    /\ \E fb \in WindowSizes, win \in WindowSizes :
          ens' = [ens EXCEPT
                    !.polls = @ + 1, !.rounds2 = @ + 1,
                    !.fb = fb, !.win = win,
                    !.attempt = IF Converged(fb, win, ens.size) THEN @ ELSE @ + 1,
                    !.pc = IF Converged(fb, win, ens.size) THEN "hide" ELSE @]
    /\ UnchangedByEnsure

\* after the second loop: hideWindow, then with an X11 window XResizeWindow,
\* XSync and one more glfwPollEvents
Hide ==
    /\ \/ ens.pc = "hide"
       \/ ens.pc = "loop2" /\ ~LoopContinues(ens.attempt)
    /\ ens' = [ens EXCEPT
                 !.mapped = FALSE,
                 !.xresize = ens.x11,
                 !.polls = IF ens.x11 THEN @ + 1 ELSE @,
                 !.pc = "final"]
    /\ UnchangedByEnsure

\* the last two reads and the test: two error lines on a mismatch, one
\* information line otherwise; the function returns
FinalCheck ==
    /\ ens.pc = "final"
    /\ \E fb \in WindowSizes, win \in WindowSizes :
          ens' = [ens EXCEPT
                    !.fb = fb, !.win = win,
                    !.log = IF Mismatch(fb, win, ens.size)
                            THEN MismatchLines(fb, win, ens.size)
                            ELSE ConfirmedLine(fb),
                    !.returned = "end",
                    !.pc = "done"]
    /\ UnchangedByEnsure

NextEnsure == EnsureCall \/ Round1 \/ Remap \/ Round2 \/ Hide \/ FinalCheck

\* the thread executes the function's next statement: nothing in it blocks
\* (glfwPollEvents returns at once when no event is pending; XSync returns
\* when the server has answered)
SpecEnsure == InitEnsure /\ [][NextEnsure]_vars /\ WF_vars(NextEnsure)

\* ------------------------------------------------------------ updateRender
\* X11Output::updateRender server call by server call, with the fatal I/O
\* error noticed inside one of the calls: Xlib calls CustomXIOErrorExitHandler
\* from inside that call, reset runs to its end, and the call returns into
\* updateRender, which goes on with its next statement.  The activation of
\* updateRender is the one element of stack: pc is the statement it executes
\* next; todo is what is left of the loop over m_viewports, in the order of
\* the map as it was when the loop began, and nodes the records those map
\* entries point to; at is the entry the iterator stands on; used is what the
\* latest statement used; interrupted: a reset has run inside this call; after:
\* the latest statement was executed after that reset returned.

\* the call of updateRender: the branch on m_usePerOutputWindows, the iterator
\* at m_viewports.begin ()
RenderActivation(s) ==
    [ fn |-> "updateRender",
      pc |-> IF s.m_usePerOutputWindows THEN "loop" ELSE "pixmap",
      perOutput |-> s.m_usePerOutputWindows,
      todo |-> Keys(s.m_viewports),
      nodes |-> [n \in DOMAIN s.m_viewports |-> s.m_viewports[n].ptr],
      at |-> "",
      interrupted |-> FALSE,
      after |-> FALSE,
      used |-> {} ]

\* the round of the loop finds the window and the GC of the name and calls
\* XPutImage; without them it continues with the next entry
LoopPutsImage(s, a) ==
    /\ a.pc = "loop" /\ a.todo # << >>
    /\ Head(a.todo) \in DOMAIN s.m_windows
    /\ Head(a.todo) \in DOMAIN s.m_windowGCs

\* the statement is, or contains, a call into Xlib on m_display
HasXCall(s, a) == a.pc \in {"pixmap", "props", "clear", "flush"} \/ LoopPutsImage(s, a)

\* what the statement at a.pc uses, the members read when it executes: the
\* round of the loop advances the iterator from the entry it stands on, tests
\* it, and reads the next entry and its viewport record; XPutImage takes the
\* connection, the drawable, the GC and the image; XChangeProperty writes
\* m_pixmap into the two properties
RenderUses(s, a) ==
    LET connection == {Res("connection", s.m_display, "")}
        entry(n) == {Res("viewport", a.nodes[n], n)}
    IN  CASE a.pc = "loop" ->
               (IF a.at # "" THEN entry(a.at) ELSE {})
               \cup (IF a.todo # << >> THEN entry(Head(a.todo)) ELSE {})
               \cup (IF LoopPutsImage(s, a)
                     THEN connection
                          \cup { Res("window", s.m_windows[Head(a.todo)], Head(a.todo)),
                                 Res("windowgc", s.m_windowGCs[Head(a.todo)], Head(a.todo)),
                                 Res("image", s.m_image, "") }
                     ELSE {})
          [] a.pc = "pixmap" ->
               connection \cup { Res("pixmap", s.m_pixmap, ""), Res("gc", s.m_gc, ""),
                                 Res("image", s.m_image, "") }
          [] a.pc = "props" -> connection \cup { Res("pixmap", s.m_pixmap, "") }
          [] OTHER -> connection

\* what the statement does to the pixmap and to the root window
RenderEffect(s, a) ==
    CASE a.pc = "pixmap" -> PaintPixmap(s)
      [] a.pc = "props" -> PublishPixmap(s, s.m_pixmap)
      [] a.pc = "clear" -> [s EXCEPT !.rootCalls = @ \o <<"XClearArea">>]
      [] OTHER -> s

\* the test after the loop of the per-output path
AfterLoop(s) == IF s.m_pixmap # None /\ s.m_gc # None THEN "pixmap" ELSE "flush"

\* the statement that follows the one at a.pc; s is the state it is reached in
RenderAdvance(s, a) ==
    CASE a.pc = "loop" /\ a.todo = << >> -> [a EXCEPT !.pc = AfterLoop(s), !.at = ""]
      [] a.pc = "loop" /\ a.todo # << >> ->
             [a EXCEPT !.at = Head(a.todo), !.todo = Tail(a.todo)]
      [] a.pc = "pixmap" -> [a EXCEPT !.pc = "props"]
      [] a.pc = "props" -> [a EXCEPT !.pc = IF a.perOutput THEN "flush" ELSE "clear"]
      [] a.pc = "clear" -> [a EXCEPT !.pc = "flush"]
      [] OTHER -> [a EXCEPT !.pc = "done"]

\* the iterator of the loop stands on an entry that a reset has erased:
\* advancing it is undefined
StaleIterator(a) == a.pc = "loop" /\ a.interrupted /\ a.at # ""

\* what the statement may come to.  With a stale iterator the loop may go on
\* over the entries that were there, end at once, or fault; XPutImage on an
\* image that was destroyed may fault
RenderOutcomes(s, a) ==
    IF StaleIterator(a) THEN {"continue", "end", "crash"}
    ELSE IF (LoopPutsImage(s, a) \/ a.pc = "pixmap") /\ ~ImageLive(s)
         THEN {"continue", "crash"}
         ELSE {"continue"}

RenderActive == stack # << >> /\ Top.fn = "updateRender" /\ Top.pc # "done"

\* dispatchEventQueue calls updateRender
CallUpdateRender ==
    /\ phase = "ready"
    /\ IF stack = << >> THEN TRUE ELSE Top.fn = "updateRender" /\ Top.pc = "done"
    /\ m_frameCounter < MaxFrames
    /\ Become([Cur EXCEPT !.stack = << RenderActivation(Cur) >>,
                          !.rootCalls = << >>,
                          !.lastOp = "call updateRender"])

\* updateRender executes its next statement, which succeeds; after the last
\* one, XFlush, it returns and dispatchEventQueue counts the frame
RenderStep ==
    /\ phase = "ready" /\ RenderActive
    /\ \E outcome \in RenderOutcomes(Cur, Top) :
          LET a == [Top EXCEPT !.used = RenderUses(Cur, Top), !.after = Top.interrupted]
              s == RenderEffect(Cur, a)
              next == IF outcome = "end"
                      THEN [a EXCEPT !.pc = AfterLoop(s), !.todo = << >>, !.at = ""]
                      ELSE RenderAdvance(s, a)
          IN  Become([s EXCEPT
                        !.stack = << IF outcome = "crash" THEN a ELSE next >>,
                        !.phase = IF outcome = "crash" THEN "crashed" ELSE @,
                        !.m_frameCounter = IF outcome # "crash" /\ a.pc = "flush"
                                           THEN @ + 1 ELSE @,
                        !.lastOp = a.pc])

\* the connection fails inside the Xlib call of the next statement: the
\* request is lost, CustomXIOErrorExitHandler runs reset, the call returns and
\* updateRender goes on from there
RenderIOError ==
    /\ phase = "ready" /\ RenderActive
    /\ HasXCall(Cur, Top)
    /\ exitHandlerOn = m_display /\ m_display # None
    /\ loads < MaxLoads
    /\ \E reply \in ServerReplies :
          LET a == [Top EXCEPT !.used = RenderUses(Cur, Top),
                               !.interrupted = TRUE, !.after = FALSE]
              s == CustomXIOErrorExitHandler(Cur, reply)
          IN  Become([s EXCEPT
                        !.stack = << RenderAdvance(s, a) >>,
                        !.m_frameCounter = IF s.phase = "ready" /\ a.pc = "flush"
                                           THEN @ + 1 ELSE @])

NextRender ==
    Construct \/ CallUpdateRender \/ RenderStep \/ RenderIOError \/ IOErrorExit

SpecRender == Init /\ [][NextRender]_vars

\* ------------------------------------------------------------- the claims
\* the state was produced by a run of loadScreenInfo (constructor or reset)
LoadDone == lastOp \in {"construct", "reset"}

\* the latest run got as far as enumerating the outputs
Enumerated == lastLoad.outcome \in {"ok", "fatal"}

\* the outputs the latest run detected: connected and driving a crtc
Detected ==
    { lastLoad.outputs[i] : i \in { j \in 1..Len(lastLoad.outputs) :
          lastLoad.outputs[j].connected /\ lastLoad.outputs[j].active } }

\* the detected outputs of the latest run that the configuration names
Matching == { o \in Detected : o.name \in requested }

SetMin(S) == CHOOSE m \in S : \A n \in S : m <= n
SetMax(S) == CHOOSE m \in S : \A n \in S : m >= n

PixmapLive == Res("pixmap", m_pixmap, "") \in live
BufferLive == Res("buffer", m_imageData, "") \in live
ImageIsLive == Res("image", m_image, "") \in live

\* C1: after a run of loadScreenInfo in which at least one detected output is
\* requested, the bounding box is the union rectangle of the requested detected
\* outputs: offset (min x, min y), size (max (x+width) - min x,
\* max (y+height) - min y), whatever the enumeration order and the other outputs
C1_BoundingBoxIsUnion ==
    (LoadDone /\ Enumerated /\ requested # {} /\ Matching # {}) =>
        /\ lastLoad.outcome = "ok"
        /\ m_rootOffsetX = SetMin({ o.x : o \in Matching })
        /\ m_rootOffsetY = SetMin({ o.y : o \in Matching })
        /\ m_fullWidth = SetMax({ o.x + o.width : o \in Matching })
                            - SetMin({ o.x : o \in Matching })
        /\ m_fullHeight = SetMax({ o.y + o.height : o \in Matching })
                            - SetMin({ o.y : o \in Matching })

\* C1 witness: a run that kept one of two detected outputs, with a box that
\* does not start at the origin
C1_Witness ==
    /\ LoadDone /\ lastLoad.outcome = "ok"
    /\ Matching # {} /\ Matching # Detected
    /\ m_rootOffsetY = 1 /\ m_fullWidth = 2

\* C2: every active viewport, rebased by the bounding-box offset, lies inside
\* the box, and so inside the image updateRender copies from
C2_ViewportsInsideBox ==
    \A n \in DOMAIN m_viewports :
        LET v == m_viewports[n]
        IN  /\ 0 <= v.x /\ 0 <= v.y
            /\ v.x + v.z <= m_fullWidth
            /\ v.y + v.w <= m_fullHeight
            /\ ImageIsLive => /\ v.x + v.z <= imageDim.width
                              /\ v.y + v.w <= imageDim.height

\* C2 witness: a frame has copied to the per-output window of a viewport that
\* the rebase moved (B alone: x 2 becomes 0)
C2_Witness ==
    /\ lastOp = "dispatchEventQueue" /\ phase = "ready"
    /\ m_usePerOutputWindows /\ ImageIsLive
    /\ DOMAIN m_viewports = {"B"}
    /\ m_rootOffsetX = 2 /\ m_viewports["B"].x = 0

\* C3 (as claimed): a run with no requested names that reaches the enumeration
\* completes with the box equal to the full virtual display at offset zero
C3_GlobalModeFullDisplay ==
    (LoadDone /\ Enumerated /\ requested = {}) =>
        /\ lastLoad.outcome = "ok"
        /\ m_fullWidth = m_rootWidth /\ m_fullHeight = m_rootHeight
        /\ m_rootOffsetX = 0 /\ m_rootOffsetY = 0

\* C4 (as claimed): a run with requested names none of which names an output
\* detected in that run ends in the fatal error, both lists reported, and
\* allocates no pixmap, buffer or image
C4_NoMatchIsFatal ==
    (LoadDone /\ Enumerated /\ requested # {} /\ Matching = {}) =>
        /\ lastLoad.outcome = "fatal"
        /\ lastLoad.reportedRequested = requested
        /\ ~PixmapLive /\ ~BufferLive /\ ~ImageIsLive

\* C5 (as claimed): no resource is released twice and no released handle is
\* passed to a release call
C5_TeardownIdempotent == doubleFreed = {}

\* C6 (as claimed): after the free that follows the runs of loadScreenInfo no
\* resource acquired by them is still live
C6_NoLeak == (phase = "destroyed") => (live = {})

\* the place of a release call in the order the claim gives
Rank(fn) ==
    CASE fn = "delete viewport" -> 0
      [] fn = "XFreeGC window"  -> 1
      [] fn = "XDestroyWindow"  -> 1
      [] fn = "XDestroyImage"   -> 2
      [] fn = "XFreeGC"         -> 3
      [] fn = "XFreePixmap"     -> 4
      [] fn = "delete[]"        -> 5
      [] fn = "XCloseDisplay"   -> 6

SurfaceTriple ==
    << m_pixmap, m_imageData, m_image, m_imageSize, pixmapSize, imageDim,
       DOMAIN buffer, PixmapLive, BufferLive, ImageIsLive >>

\* C8: between operations the pixmap, the pixel buffer and the image are all
\* live or all released; when live, getImageBufferSize () is
\* getFullWidth () * getFullHeight () * 4 and is the length of the buffer; and a
\* step that is not a run of loadScreenInfo or free changes no handle, size or
\* existence of the three (a frame writes the bytes of the buffer, nothing else)
C8_SurfaceAsUnit ==
    /\ [] ( /\ PixmapLive <=> BufferLive
            /\ BufferLive <=> ImageIsLive
            /\ BufferLive => /\ m_imageSize = m_fullWidth * m_fullHeight * 4
                             /\ DOMAIN buffer = 0..(m_imageSize - 1) )
    /\ [][ (lastOp' \notin {"construct", "reset", "destructor"})
              => (SurfaceTriple' = SurfaceTriple) ]_vars

\* C8 witness: a frame has read back into the live buffer of a live surface
C8_Witness ==
    /\ lastOp = "dispatchEventQueue" /\ phase = "ready"
    /\ PixmapLive /\ BufferLive /\ ImageIsLive
    /\ lastFrame.read /\ m_imageSize = 8

\* C9 (as claimed): the pixmap has the width and height of the bounding box,
\* like the pixel buffer and the image
C9_PixmapSizedToBox ==
    PixmapLive =>
        /\ pixmapSize = [width |-> m_fullWidth, height |-> m_fullHeight]
        /\ imageDim = [width |-> m_fullWidth, height |-> m_fullHeight]

\* C9 (amended): the pixmap has the width and height of the root window; the
\* image has those of the bounding box and the pixel buffer holds
\* fullWidth * fullHeight * 4 bytes
C9_PixmapSizedToRoot ==
    PixmapLive =>
        /\ pixmapSize = [width |-> m_rootWidth, height |-> m_rootHeight]
        /\ imageDim = [width |-> m_fullWidth, height |-> m_fullHeight]
        /\ Cardinality(DOMAIN buffer) = m_fullWidth * m_fullHeight * 4

\* C9 witness: a surface whose box is smaller than the root window
C9_Witness ==
    /\ LoadDone /\ lastLoad.outcome = "ok" /\ PixmapLive
    /\ m_fullWidth < m_rootWidth /\ m_fullHeight < m_rootHeight

\* byte b of the buffer belongs to a pixel of the latest frame's readback region
InReadRegion(b) ==
    LET p == b \div 4
    IN  /\ (p % lastFrame.fullWidth) < lastFrame.readWidth
        /\ (p \div lastFrame.fullWidth) < lastFrame.readHeight

\* C10 (as claimed): after a frame whose readback region is smaller than the
\* box in either dimension, every byte of the pixel buffer outside the region
\* is zero
C10_NoResidualPixels ==
    ( /\ lastOp = "dispatchEventQueue" /\ BufferLive
      /\ \/ lastFrame.readWidth < lastFrame.fullWidth
         \/ lastFrame.readHeight < lastFrame.fullHeight )
      => \A b \in DOMAIN buffer : ~InReadRegion(b) => buffer[b] = 0

\* C10, the part about earlier frames alone: after such a frame no byte read
\* back by an earlier frame remains outside the region (violated as well: a
\* full frame followed by a frame with a zero framebuffer width)
C10_NoPixelOfEarlierFrame ==
    ( /\ lastOp = "dispatchEventQueue" /\ BufferLive
      /\ \/ lastFrame.readWidth < lastFrame.fullWidth
         \/ lastFrame.readHeight < lastFrame.fullHeight )
      => \A b \in DOMAIN buffer : ~InReadRegion(b) => buffer[b] <= 0

\* how often the latest operation issued the root-window request call
Count(calls, call) == Cardinality({ i \in 1..Len(calls) : calls[i] = call })

\* C11 (as claimed): every run of loadScreenInfo, the constructor's and each
\* reset's, sets the root window's background pixmap exactly once, and no
\* frame sets it
C11_BackgroundOncePerRun ==
    /\ LoadDone => Count(rootCalls, "XSetWindowBackgroundPixmap") = 1
    /\ lastOp = "dispatchEventQueue" =>
          Count(rootCalls, "XSetWindowBackgroundPixmap") = 0

\* C11 (amended): a run of loadScreenInfo that allocates the surface sets the
\* root window's background pixmap exactly once, to the pixmap it created; a
\* run that returns early or ends in the fatal error does not set it; no frame
\* sets it, so a frame leaves the background as the latest allocating run set it
C11_BackgroundOncePerAllocatingRun ==
    /\ [] ( /\ LoadDone =>
                  Count(rootCalls, "XSetWindowBackgroundPixmap")
                      = (IF lastLoad.outcome = "ok" THEN 1 ELSE 0)
            /\ (LoadDone /\ lastLoad.outcome = "ok") =>
                  (rootProps.background = m_pixmap /\ PixmapLive)
            /\ lastOp = "dispatchEventQueue" =>
                  Count(rootCalls, "XSetWindowBackgroundPixmap") = 0 )
    /\ [][ lastOp' = "dispatchEventQueue" =>
              rootProps'.background = rootProps.background ]_vars

\* C11 witness: two frames rendered after a reset, the background still the
\* pixmap of the reset's run
C11_Witness ==
    /\ lastOp = "dispatchEventQueue" /\ m_frameCounter = 2
    /\ loads = 2 /\ lastLoad.outcome = "ok"
    /\ rootProps.background = 2 /\ m_pixmap = 2 /\ PixmapLive

\* C12 (as claimed): a frame issues no XChangeProperty on the root window, in
\* the shared-pixmap path and in the per-output-window path alike; the two
\* properties are written by loadScreenInfo only
C12_FramesLeaveProperties ==
    lastOp = "dispatchEventQueue" =>
        /\ Count(rootCalls, "XChangeProperty _XROOTPMAP_ID") = 0
        /\ Count(rootCalls, "XChangeProperty ESETROOT_PMAP_ID") = 0

\* both root-pixmap properties hold the id p
PropertiesName(props, p) == props.xrootpmap = p /\ props.esetroot = p

SameOutputs(a, b) ==
    { a[i] : i \in 1..Len(a) } = { b[i] : i \in 1..Len(b) }

\* the active viewports as the claim compares them: names and rebased rectangles
Rects(viewports) ==
    [n \in DOMAIN viewports |->
        << viewports[n].x, viewports[n].y, viewports[n].z, viewports[n].w >>]

\* C14: a reset whose server reports the outputs the previous run saw, with the
\* requested names unchanged, ends with the same active viewports (names and
\* rebased rectangles) and the same bounding box (offset and size) as before
\* it; this holds of every reset of a sequence of resets
C14_ResetRediscoversIdentically ==
    [][ ( /\ lastOp' = "reset"
          /\ lastLoad.outcome = "ok"
          /\ SameOutputs(lastLoad.outputs, lastLoad'.outputs)
          /\ requested' = requested )
        => /\ lastLoad'.outcome = "ok"
           /\ Rects(m_viewports') = Rects(m_viewports)
           /\ << m_rootOffsetX', m_rootOffsetY', m_fullWidth', m_fullHeight' >>
                = << m_rootOffsetX, m_rootOffsetY, m_fullWidth, m_fullHeight >> ]_vars

\* C14 witness: after two consecutive resets, each run having detected A and B
\* (m_screens holds the six records of the three runs), A alone requested and
\* active, the box below the origin of the root window
C14_Witness ==
    /\ lastOp = "reset" /\ loads = 3 /\ lastLoad.outcome = "ok"
    /\ Len(m_screens) = 6
    /\ DOMAIN m_viewports = {"A"}
    /\ requested = {"A"}
    /\ m_rootOffsetY = 1 /\ m_viewports["A"].y = 0

\* the per-output windows, and the per-output GCs, that exist on the server
LiveWindows == { r \in live : r[1] = "window" }
LiveWindowGCs == { r \in live : r[1] = "windowgc" }

\* C15: between operations the window map and the window-GC map have the same
\* keys: the names of the active viewports when the per-output layer is
\* enabled, none when it is disabled; both maps are empty after free (the
\* destructor, or a reset whose run stops before the allocation); and the
\* windows that exist are those of the map, each with the GC of the same
\* output and run, and no GC exists without its window
C15_WindowsPairedWithGCs ==
    /\ DOMAIN m_windows = DOMAIN m_windowGCs
    /\ DOMAIN m_windows = (IF m_usePerOutputWindows THEN DOMAIN m_viewports ELSE {})
    /\ (phase = "destroyed" \/ lastLoad.outcome # "ok") => DOMAIN m_windows = {}
    /\ LiveWindows = { Res("window", m_windows[n], n) : n \in DOMAIN m_windows }
    /\ LiveWindowGCs = { Res("windowgc", m_windowGCs[n], n) : n \in DOMAIN m_windowGCs }
    /\ \A n \in DOMAIN m_windows : m_windows[n] = m_windowGCs[n]

\* C15 witness: after a reset with the layer enabled, one window and one GC for
\* each of the two active viewports, those of the first run gone
C15_Witness ==
    /\ lastOp = "reset" /\ loads = 2 /\ m_usePerOutputWindows
    /\ DOMAIN m_viewports = {"A", "B"}
    /\ LiveWindows = { Res("window", 2, "A"), Res("window", 2, "B") }
    /\ LiveWindowGCs = { Res("windowgc", 2, "A"), Res("windowgc", 2, "B") }
    /\ \E i \in 1..Len(freeLog) : Res("window", 1, "A") \in freeLog[i].res

\* the resource handles, the viewports and the bounding box of the output
Holdings ==
    << m_display, m_pixmap, m_gc, m_image, m_imageData, m_imageSize,
       m_windows, m_windowGCs, m_viewports,
       m_rootOffsetX, m_rootOffsetY, m_fullWidth, m_fullHeight,
       m_rootWidth, m_rootHeight, m_usePerOutputWindows >>

\* C16: a protocol error the server reports is logged and suppressed: the
\* handler returns, the process goes on (the output stays ready), no reset and
\* no free runs (no run of loadScreenInfo, no release call, the resources that
\* exist stay the same), and no handle, viewport or bounding-box value changes
C16_ProtocolErrorSuppressed ==
    [][ lastOp' = "CustomXErrorHandler" =>
           /\ phase' = "ready"
           /\ loads' = loads /\ lastLoad' = lastLoad
           /\ freeLog' = freeLog /\ live' = live /\ doubleFreed' = doubleFreed
           /\ Holdings' = Holdings
           /\ rootProps' = rootProps /\ buffer' = buffer ]_vars

\* C16 witness: a protocol error handled after a reset and a frame, the
\* surface of the reset's run still in place
C16_Witness ==
    /\ lastOp = "CustomXErrorHandler" /\ phase = "ready"
    /\ loads = 2 /\ m_frameCounter = 1
    /\ PixmapLive /\ m_pixmap = 2 /\ DOMAIN m_viewports # {}

\* C17 (as claimed): a fatal I/O error on the output's connection never ends
\* the process; it runs reset, which releases every resource the output holds
\* and then runs loadScreenInfo once, on a new connection, with the same
\* requested names; the run registers the recovery handler on the new
\* connection, and the output is ready again
C17_IOErrorRunsFullReset ==
    /\ [] (phase # "exited")
    /\ [][ lastOp' = "reset" =>
              /\ requested' = requested
              /\ live \cap live' = {}
              /\ loads' = loads + 1
              /\ m_display' = loads' /\ Res("connection", m_display', "") \in live'
              /\ exitHandlerOn' = m_display'
              /\ phase' = "ready" ]_vars

\* C17, what does hold: in a build with XSetIOErrorExitHandler the handler is
\* registered on the connection of every run, and a reset releases the
\* connection, the surface and the windows of the run before, runs
\* loadScreenInfo once with the same requested names, and ends ready or in the
\* fatal configuration error
C17_HandlerOnEveryConnection ==
    /\ [] ( /\ (phase = "ready" /\ haveExitHandler) =>
                  (exitHandlerOn = m_display /\ Res("connection", m_display, "") \in live)
            /\ phase = "exited" => ~haveExitHandler
            /\ lastOp = "reset" => haveExitHandler )
    /\ [][ lastOp' = "reset" =>
              /\ requested' = requested
              /\ \A r \in live \cap live' : r[1] \in {"info", "screen"}
              /\ loads' = loads + 1
              /\ m_display' = loads' /\ Res("connection", m_display', "") \in live'
              /\ exitHandlerOn' = m_display'
              /\ \/ phase' = "ready"
                 \/ phase' = "fatal" /\ lastLoad'.outcome = "fatal" ]_vars

\* a reset has started and not returned
InReset == Nesting > 0

\* C18 (as claimed): a reset runs to completion before anything else: while a
\* reset has started and not returned, that is from the start of its free to
\* the end of its loadScreenInfo, no readback, no call of updateRender and no
\* buffer swap executes, and no second reset starts
C18_ResetRunsToCompletion ==
    /\ [] (Nesting <= 1)
    /\ [][ InReset => lastOp' \notin FrameWork ]_vars

\* C18, the part that holds: no step of a frame executes while a reset is in
\* progress; the frame that was interrupted goes on only after the reset has
\* returned
C18_NoFrameStepInsideReset ==
    [][ InReset => lastOp' \notin FrameWork ]_vars

\* ensureFramebufferSize has been called and has not returned
EnsureActive == ens.pc \notin {"idle", "done"}

\* the function logged the size-mismatch warning
Warned ==
    \E i \in 1..Len(ens.log) :
        ens.log[i].text \in {"Framebuffer size mismatch", "X11 window size mismatch"}

\* C19: every call of ensureFramebufferSize returns, whatever sizes the window
\* manager lets it see: it runs the first loop at most 4 times and the second
\* (window mapped off-screen) at most 4 times, the second only after 4 rounds
\* of the first; every round calls glfwPollEvents once (the only other call is
\* the one after XResizeWindow); the window is mapped only during the second
\* loop
C19_EnsureTerminates ==
    /\ [] ( ens.pc # "idle" =>
              /\ ens.rounds1 <= 4 /\ ens.rounds2 <= 4
              /\ ens.rounds2 > 0 => ens.rounds1 = 4
              /\ ens.polls = ens.rounds1 + ens.rounds2 + (IF ens.xresize THEN 1 ELSE 0)
              /\ ens.mapped => ens.pc \in {"loop2", "hide"} )
    /\ (EnsureActive ~> ens.pc = "done")

\* C19 witness: a call that never saw the requested size has returned after
\* 4 rounds before the remap and 4 rounds mapped off-screen
C19_Witness ==
    /\ ens.pc = "done" /\ ens.returned = "end"
    /\ ens.rounds1 = 4 /\ ens.rounds2 = 4
    /\ Warned /\ ~ens.mapped

\* C20: when ensureFramebufferSize has returned, the mismatch warning is in
\* the log exactly when the framebuffer size or the window size it read last
\* differs from the requested size; a call that returned from the first loop
\* read matching sizes and logged nothing; a call that left the second loop on
\* convergence is judged by the final reads alone
C20_WarnsIffLastReadDiffers ==
    ens.pc = "done" =>
        /\ Warned <=> (ens.fb # ens.size \/ ens.win # ens.size)
        /\ ens.returned = "early" =>
              (ens.log = << >> /\ ens.fb = ens.size /\ ens.win = ens.size
               /\ ens.rounds2 = 0 /\ ~ens.xresize)
        /\ ens.returned \in {"early", "end"}

\* C20 witness: the sizes converged in the second round after the remap, the
\* final reads match and no warning was logged
C20_Witness ==
    /\ ens.pc = "done" /\ ens.returned = "end"
    /\ ens.rounds1 = 4 /\ ens.rounds2 = 2
    /\ ens.fb = ens.size /\ ens.win = ens.size
    /\ ~Warned

\* the call has returned without ever reading the requested sizes: four rounds
\* of each loop, none of which converged, and a final mismatch
NeverConverged ==
    /\ ens.pc = "done" /\ ens.returned = "end"
    /\ ens.rounds1 = 4 /\ ens.rounds2 = 4 /\ ens.attempt = 4
    /\ (ens.fb # ens.size \/ ens.win # ens.size)

\* the lines of the log that report a mismatch
WarningLines ==
    { i \in 1..Len(ens.log) :
        ens.log[i].text \in {"Framebuffer size mismatch", "X11 window size mismatch"} }

\* C21 (as claimed): a call that never converged has logged exactly one
\* mismatch warning, and that one carries the requested size and both observed
\* sizes; no warning is logged while the call is polling
C21_OneWarningLine ==
    /\ NeverConverged => Cardinality(WarningLines) = 1
    /\ EnsureActive => WarningLines = {}

\* C21 (amended): a call that never converged has logged the mismatch once, at
\* the end, as two error lines: the first carries the requested size and the
\* framebuffer size read last, the second the requested size and the window
\* size read last; nothing about a mismatch is logged while the call is
\* polling in either loop
C21_OneWarningOfTwoLines ==
    /\ NeverConverged =>
          ens.log = << [text |-> "Framebuffer size mismatch",
                        requested |-> ens.size, got |-> ens.fb],
                       [text |-> "X11 window size mismatch",
                        requested |-> ens.size, got |-> ens.win] >>
    /\ EnsureActive => ens.log = << >>

\* C21 witness: a call that never converged has returned; the framebuffer
\* reached the requested size at the end and the window did not
C21_Witness ==
    /\ NeverConverged
    /\ ens.fb = ens.size /\ ens.win # ens.size
    /\ Len(ens.log) = 2

\* the remap polling phase is over and the last sizes it read are in ens
AfterRemapPhase == ens.pc = "final" /\ ens.rounds2 > 0

\* C22: when ensureFramebufferSize has issued XResizeWindow, the sizes read
\* last in the remap polling phase still differed from the requested size
C22_ServerResizeOnlyUnconverged ==
    (AfterRemapPhase /\ ens.xresize) => ~Converged(ens.fb, ens.win, ens.size)

\* what the code does instead: the server-side resize depends on the X11
\* handles alone, and on the first loop not having returned
C22_ServerResizeWithHandles ==
    ens.pc \in {"final", "done"} /\ ens.returned # "early" => ens.xresize = ens.x11

\* a call of dispatchEventQueue is in progress; the render loop calls it, so
\* its activation is the outermost
FrameActive == stack # << >> /\ stack[1].fn = "dispatchEventQueue"

\* the call has reached the end of its body
AtFrameReturn ==
    FrameActive /\ Len(stack) = 1 /\ FrameSteps[stack[1].pc] = "return"

\* the place of a step in the order the claim gives; the three calls of
\* updateRender are the present step, glGetError belongs to the readback
FrameRank(step) ==
    CASE step = "glClear" -> 1
      [] step = "update" -> 2
      [] step = "glReadPixels" -> 3
      [] step = "glGetError" -> 4
      [] step = "XPutImage" -> 5
      [] step = "XChangeProperty" -> 6
      [] step = "XFlush" -> 7
      [] step = "glfwSwapBuffers" -> 8
      [] step = "glfwPollEvents" -> 9
      [] step = "m_frameCounter++" -> 10
      [] step = "usleep" -> 11
      [] OTHER -> 12

\* the steps follow the order, none but the scene update repeated
InFrameOrder(trace) ==
    \A i, j \in 1..Len(trace) :
        i < j => \/ FrameRank(trace[i]) < FrameRank(trace[j])
                 \/ trace[i] = "update" /\ trace[j] = "update"

\* the steps every returning call executes
UnconditionalSteps ==
    { "glClear", "XPutImage", "XChangeProperty", "XFlush", "glfwSwapBuffers",
      "glfwPollEvents", "m_frameCounter++" }

\* C23 (as claimed): a call of dispatchEventQueue that reaches its end has
\* executed every frame step exactly once (the scene update once per
\* viewport), the readback and the trailing sleep included, in the order
\* clear, update, readback, present, swap, poll, increment, sleep
C23_EveryStepOnce ==
    AtFrameReturn =>
        /\ InFrameOrder(stack[1].trace)
        /\ \A step \in UnconditionalSteps \cup {"glReadPixels", "usleep"} :
              Count(stack[1].trace, step) = 1
        /\ Count(stack[1].trace, "update") = stack[1].viewports

\* C23 (amended): at every point of a call of dispatchEventQueue the steps
\* executed so far follow the order clear, update, readback, present, swap,
\* poll, increment, sleep, each at most once and the scene update at most once
\* per viewport; present is never before the readback and the counter is never
\* incremented before present has finished; a call that reaches its end has
\* executed clear, present, swap, poll and the increment exactly once and the
\* update once per viewport, while the readback and the sleep are executed at
\* most once; the counter changes only by the increment, by exactly 1
C23_StepsInOrder ==
    /\ [](FrameActive =>
            /\ InFrameOrder(stack[1].trace)
            /\ Count(stack[1].trace, "update") <= stack[1].viewports
            /\ \A i, j \in 1..Len(stack[1].trace) :
                  /\ (stack[1].trace[i] = "XPutImage" /\ stack[1].trace[j] = "glReadPixels")
                        => j < i
                  /\ (stack[1].trace[i] = "m_frameCounter++" /\ stack[1].trace[j] = "XFlush")
                        => j < i
            /\ "m_frameCounter++" \in { stack[1].trace[i] : i \in 1..Len(stack[1].trace) }
                  => "XFlush" \in { stack[1].trace[i] : i \in 1..Len(stack[1].trace) })
    /\ [](AtFrameReturn =>
            /\ \A step \in UnconditionalSteps : Count(stack[1].trace, step) = 1
            /\ Count(stack[1].trace, "update") = stack[1].viewports
            /\ Count(stack[1].trace, "glReadPixels") <= 1
            /\ Count(stack[1].trace, "usleep") <= 1)
    /\ [][ m_frameCounter' # m_frameCounter =>
              /\ m_frameCounter' = m_frameCounter + 1
              /\ lastOp' = "m_frameCounter++" ]_vars

\* C23 witness: a call with two viewports is at its end, having read back and
\* not slept
C23_Witness ==
    /\ AtFrameReturn
    /\ stack[1].viewports = 2
    /\ Count(stack[1].trace, "update") = 2
    /\ Count(stack[1].trace, "glReadPixels") = 1
    /\ Count(stack[1].trace, "usleep") = 0
    /\ m_frameCounter = 1

\* the latest operation was a frame whose readback wrote pixels
ReadbackWrote ==
    /\ lastOp = "dispatchEventQueue"
    /\ lastFrame.readWidth > 0 /\ lastFrame.readHeight > 0

\* C24: the bytes the readback of a frame writes are those at offsets
\* (y * fullWidth + x) * 4 .. + 3 for x < readWidth, y < readHeight, all of
\* them below fullWidth * fullHeight * 4 = getImageBufferSize (), and all of
\* them inside the pixel buffer: no write goes outside it
C24_ReadbackInsideBuffer ==
    ReadbackWrote =>
        /\ lastFrame.readWidth <= lastFrame.fullWidth
        /\ lastFrame.readHeight <= lastFrame.fullHeight
        /\ \A b \in ReadOffsets(lastFrame.readWidth, lastFrame.readHeight,
                                lastFrame.fullWidth) :
              0 <= b /\ b < lastFrame.fullWidth * lastFrame.fullHeight * 4
        /\ m_imageSize = lastFrame.fullWidth * lastFrame.fullHeight * 4
        /\ ~wildWrite

\* the part of C24 that is arithmetic: the offsets are below the size the
\* buffer was allocated with
C24_OffsetsBelowImageSize ==
    ReadbackWrote =>
        \A b \in ReadOffsets(lastFrame.readWidth, lastFrame.readHeight,
                             lastFrame.fullWidth) :
            0 <= b /\ b < m_imageSize

\* the bounding-box rectangle in root coordinates
BoxRect ==
    { p \in (0..(m_rootWidth - 1)) \X (0..(m_rootHeight - 1)) :
        /\ m_rootOffsetX <= p[1] /\ p[1] < m_rootOffsetX + m_fullWidth
        /\ m_rootOffsetY <= p[2] /\ p[2] < m_rootOffsetY + m_fullHeight }

\* C25: after any number of frames every pixel of the root pixmap that
\* updateRender has written lies inside the bounding-box rectangle
\* [rootOffsetX, rootOffsetX + fullWidth) x [rootOffsetY, rootOffsetY +
\* fullHeight); the pixels outside it are as loadScreenInfo left them
C25_FramesPaintOnlyTheBox ==
    \A p \in (0..(pixmapSize.width - 1)) \X (0..(pixmapSize.height - 1)) :
        p \notin BoxRect => p \notin pixmapPainted

\* C25 witness: only A is requested, the box is 2x1 at (0, 1) of the 3x2 root;
\* two frames have painted the two pixels of the box and none of the other four
C25_Witness ==
    /\ lastOp = "dispatchEventQueue" /\ m_frameCounter = 2
    /\ PixmapLive
    /\ pixmapSize = [width |-> 3, height |-> 2]
    /\ pixmapPainted = { <<0, 1>>, <<1, 1>> }
    /\ BoxRect = pixmapPainted

\* the names in the inventory of detected outputs, in list order
ScreenNames == [i \in 1..Len(m_screens) |-> m_screens[i].name]

\* C26: after a run of loadScreenInfo that enumerated the outputs, from the
\* constructor or from any reset, m_screens holds exactly one entry per output
\* the run found connected and active: no name twice, none from an earlier run
C26_InventoryIsLatestDiscovery ==
    (LoadDone /\ Enumerated) =>
        /\ Len(m_screens) = Cardinality(Detected)
        /\ { ScreenNames[i] : i \in 1..Len(m_screens) } = { o.name : o \in Detected }
        /\ \A i, j \in 1..Len(m_screens) :
              ScreenNames[i] = ScreenNames[j] => i = j

\* what the code keeps instead: m_screens only grows, one entry per detected
\* output of every run so far
C26_InventoryAccumulates ==
    [][ Len(m_screens') >= Len(m_screens) ]_vars

\* the latest statement of updateRender was executed after a reset had run
\* inside an earlier call of the same updateRender
AfterResetInside == stack # << >> /\ Top.fn = "updateRender" /\ Top.after

\* what the latest statement used, the handles that are None left out
UsedHandles == { r \in Top.used : r[2] # None }

\* C27: a statement of updateRender that executes after the handler's reset
\* has returned uses only handles, map entries and viewport records that are
\* live after the reset: none of them was released by the reset
C27_StepsAfterResetUseLive ==
    AfterResetInside => UsedHandles \subseteq live

\* what holds of the statements after a reset that ran to the end of
\* loadScreenInfo, outside the loop over m_viewports: they read the members
\* again and use the resources of the new run
C27_AfterCompleteReset ==
    (AfterResetInside /\ lastLoad.outcome = "ok" /\ lastOp # "loop")
        => UsedHandles \subseteq live

====
